---- MODULE Spec2Model ----
(***************************************************************************)
(* Model of the DDIL network core of podx:                                 *)
(*   - CacheManager   (src/src/network/cache_manager.py)                   *)
(*   - DDILController (src/src/network/ddil_controller.py)                 *)
(* Each public method is one action; private helpers are operators on a    *)
(* record holding the object's fields.                                     *)
(***************************************************************************)
EXTENDS Integers, Sequences, FiniteSets, TLC

\* ------------------------------------------------------------------------
\* Bounds of the model
\* ------------------------------------------------------------------------
\* capacity_bytes of the cache under test (CacheManager(capacity_tb=...))
CapacityBytes == 1000
\* number of CacheManager calls in one run
MaxOps == 3
\* the wall clock (datetime.now()) is read in whole ticks, at most MaxTicks
MaxTicks == 2
\* hours per clock tick
TickHours == 24
\* callbacks registered for each event of the controller
NCallbacks == 2
\* handovers executed by one manager
MaxHandovers == 3
\* calls of one ddil_enter callback counted while no path qualifies
MaxEnterCalls == 2
\* priorities drawn for the paths of a selection: 1..MaxPriority
MaxPriority == 3
\* CacheManager calls made by the threads of a concurrent run
MaxCalls == 2

\* ------------------------------------------------------------------------
\* CachePriority (enum values)
\* ------------------------------------------------------------------------
CRITICAL == 1
HIGH == 2
NORMAL == 3
LOW == 4
PREFETCH == 5

CachePriority == {CRITICAL, HIGH, NORMAL, LOW, PREFETCH}

\* TTL given by prefetch() to every entry it stores
PrefetchTtlHours == 24

\* ------------------------------------------------------------------------
\* Inputs
\* ------------------------------------------------------------------------
Keys == {"a", "b"}
Sizes == {500, 600}
\* ttl_hours: 0 stands for both None and 0 (both falsy in put)
Ttls == {0, 12}
Sources == {"origin"}
Checksums == {"c1"}
\* metadata argument: <<>> is None/{} (put stores `metadata or {}`)
Metadatas == {<<"m">>}
\* key lists handed to prefetch
KeyLists == {<<"a">>, <<"b">>, <<"a", "b">>}

\* Optional values: <<>> is None, <<v>> is v
None == <<>>
Some(v) == <<v>>

VARIABLES
    entries,          \* CacheManager._entries, in dict (insertion) order
    used_bytes,       \* CacheManager._used_bytes
    hits,             \* CacheManager._hits
    misses,           \* CacheManager._misses
    evictions,        \* CacheManager._evictions
    prefetch_hits,    \* CacheManager._prefetch_hits
    prefetch_total,   \* CacheManager._prefetch_total
    now,              \* last value returned by datetime.now(), in hours
    nops,             \* calls made so far
    last,             \* the last call: its arguments, result and evictions
    cache_lock,       \* CacheManager._lock: "free" or the thread holding it
    tcall             \* per thread: the call it is in and where

concVars == <<cache_lock, tcall>>
cacheVars == <<entries, used_bytes, hits, misses, evictions, prefetch_hits,
               prefetch_total, now, nops, last, concVars>>

VARIABLES
    paths,            \* DDILController.paths: mode -> NetworkPath
    active_mode,      \* DDILController.active_mode
    callbacks,        \* DDILController._callbacks: event -> callbacks registered
    enter_calls,      \* per watched ddil_enter callback: calls since a path
                      \* last qualified
    dlast,            \* the last controller call: result, callbacks it invoked
    running,          \* DDILController._running
    mon_pc,           \* where the monitoring thread is
    stop_pc,          \* where the caller of stop() is
    old_pc,           \* where the thread of an earlier start() is
    pending           \* what a cycle has decided and not yet applied

threadVars == <<running, mon_pc, stop_pc, old_pc, pending>>
ddilVars == <<paths, active_mode, callbacks, enter_calls, dlast, threadVars>>

\* ------------------------------------------------------------------------
\* HandoverManager (src/network/handover_manager.py)
\* ------------------------------------------------------------------------
VARIABLES
    strategy,          \* HandoverManager.strategy
    handover_history,  \* HandoverManager.handover_history
    lock,              \* HandoverManager._lock: "free" or "held"
    hlast              \* the last call of the manager and what it returned

hmVars == <<strategy, handover_history, lock, hlast>>

vars == <<cacheVars, ddilVars, hmVars>>

\* ------------------------------------------------------------------------
\* The clock: a later reading of datetime.now() is never earlier
\* ------------------------------------------------------------------------
ClockReadings(t) == {u \in {t, t + TickHours} : u <= MaxTicks * TickHours}

\* ------------------------------------------------------------------------
\* CacheManager as a record of its fields
\* ------------------------------------------------------------------------
Self == [entries |-> entries, used_bytes |-> used_bytes, hits |-> hits,
         misses |-> misses, evictions |-> evictions,
         prefetch_hits |-> prefetch_hits, prefetch_total |-> prefetch_total,
         now |-> now, evicted |-> <<>>]

Store(c) ==
    /\ entries' = c.entries
    /\ used_bytes' = c.used_bytes
    /\ hits' = c.hits
    /\ misses' = c.misses
    /\ evictions' = c.evictions
    /\ prefetch_hits' = c.prefetch_hits
    /\ prefetch_total' = c.prefetch_total
    /\ now' = c.now

\* key in self._entries
HasKey(es, k) == \E i \in 1..Len(es) : es[i].key = k

\* self._entries[key]
EntryOf(es, k) == es[CHOOSE i \in 1..Len(es) : es[i].key = k]

\* entry.expires_at and t > entry.expires_at
Expired(e, t) == \E x \in {e.expires_at[i] : i \in 1..Len(e.expires_at)} : t > x

\* _remove_entry that forgets the used-byte accounting
RemoveEntry_NoAccounting(c, k) ==
    IF HasKey(c.entries, k)
    THEN [c EXCEPT !.entries = SelectSeq(@, LAMBDA e : e.key # k)]
    ELSE c

\* CacheManager._remove_entry
RemoveEntry(c, k) ==
    IF HasKey(c.entries, k)
    THEN [c EXCEPT !.entries = SelectSeq(@, LAMBDA e : e.key # k),
                   !.used_bytes = @ - EntryOf(c.entries, k).size_bytes]
    ELSE c

\* candidates without the filter on CRITICAL
Candidates_All(es) == es

\* candidates of _evict_lowest_priority, in dict order
Candidates(es) == SelectSeq(es, LAMBDA e : e.priority # CRITICAL)

\* sort key with the priority not negated (most important first)
SortsBefore_Ascending(x, y) ==
    \/ x.priority < y.priority
    \/ x.priority = y.priority /\ x.accessed_at < y.accessed_at

\* (-priority.value, accessed_at) of x sorts strictly before that of y
SortsBefore(x, y) ==
    \/ (0 - x.priority) < (0 - y.priority)
    \/ x.priority = y.priority /\ x.accessed_at < y.accessed_at

\* candidates.sort(...)[0]: list.sort is stable, so the head is the first
\* candidate, in dict order, that no other candidate sorts before
SortedHead(cand) ==
    cand[CHOOSE i \in 1..Len(cand) :
            /\ \A j \in 1..Len(cand) : ~SortsBefore(cand[j], cand[i])
            /\ \A j \in 1..(i - 1) : SortsBefore(cand[i], cand[j])]

\* _evict_lowest_priority that does not count the eviction
EvictLowestPriority_NoCount(c) ==
    LET victim == SortedHead(Candidates(c.entries))
        d == RemoveEntry(c, victim.key)
    IN [d EXCEPT !.evicted = Append(@, victim.key)]

\* CacheManager._evict_lowest_priority, for a cache that has candidates
EvictLowestPriority(c) ==
    LET victim == SortedHead(Candidates(c.entries))
        d == RemoveEntry(c, victim.key)
    IN [d EXCEPT !.evictions = @ + 1,
                 !.evicted = Append(@, victim.key)]

\* eviction loop that tests the used bytes without the new entry's size
RECURSIVE EvictUntilFits_ForgetSize(_, _)
EvictUntilFits_ForgetSize(c, size_bytes) ==
    IF c.used_bytes > CapacityBytes
    THEN IF Len(Candidates(c.entries)) = 0
         THEN [ok |-> FALSE, c |-> c]
         ELSE EvictUntilFits_ForgetSize(EvictLowestPriority(c), size_bytes)
    ELSE [ok |-> TRUE, c |-> c]

\* eviction loop that reports success when nothing is left to evict
RECURSIVE EvictUntilFits_IgnoreFull(_, _)
EvictUntilFits_IgnoreFull(c, size_bytes) ==
    IF c.used_bytes + size_bytes > CapacityBytes
    THEN IF Len(Candidates(c.entries)) = 0
         THEN [ok |-> TRUE, c |-> c]
         ELSE EvictUntilFits_IgnoreFull(EvictLowestPriority(c), size_bytes)
    ELSE [ok |-> TRUE, c |-> c]

\* the eviction loop of put: whether the entry fits, and the cache
RECURSIVE EvictUntilFits(_, _)
EvictUntilFits(c, size_bytes) ==
    IF c.used_bytes + size_bytes > CapacityBytes
    THEN IF Len(Candidates(c.entries)) = 0
         THEN [ok |-> FALSE, c |-> c]
         ELSE EvictUntilFits(EvictLowestPriority(c), size_bytes)
    ELSE [ok |-> TRUE, c |-> c]

\* the arguments of put
PutArgs == [key : Keys, size_bytes : Sizes, source : Sources,
            priority : CachePriority, ttl_hours : Ttls,
            checksum : Checksums, metadata : Metadatas]

\* entry built without the caller's checksum
NewEntry_NoChecksum(a, t) ==
    [key |-> a.key,
     size_bytes |-> a.size_bytes,
     priority |-> a.priority,
     created_at |-> t,
     accessed_at |-> t,
     expires_at |-> IF a.ttl_hours # 0 THEN Some(t + a.ttl_hours) ELSE None,
     source |-> a.source,
     checksum |-> "",
     metadata |-> a.metadata]

\* the CacheEntry built by put, datetime.now() being t
NewEntry(a, t) ==
    [key |-> a.key,
     size_bytes |-> a.size_bytes,
     priority |-> a.priority,
     created_at |-> t,
     accessed_at |-> t,
     expires_at |-> IF a.ttl_hours # 0 THEN Some(t + a.ttl_hours) ELSE None,
     source |-> a.source,
     checksum |-> a.checksum,
     metadata |-> a.metadata]

\* CacheManager.put with datetime.now() returning t: its result and the cache
PutFn(c, a, t) ==
    LET r == EvictUntilFits(c, a.size_bytes)
        d == RemoveEntry(r.c, a.key)
    IN IF ~r.ok
       THEN [ok |-> FALSE, c |-> r.c]
       ELSE [ok |-> TRUE,
             c |-> [d EXCEPT !.entries = Append(@, NewEntry(a, t)),
                             !.used_bytes = @ + a.size_bytes,
                             !.prefetch_total =
                                 IF a.priority = PREFETCH THEN @ + 1 ELSE @,
                             !.now = t]]

\* get that returns an expired entry as a hit instead of removing it
GetFn_ServeExpired(c, key, t1, t2) ==
    IF HasKey(c.entries, key)
    THEN LET entry == EntryOf(c.entries, key)
             got == [entry EXCEPT !.accessed_at = t2]
         IN [ret |-> Some(got),
             c |-> [c EXCEPT
                      !.entries = [i \in 1..Len(@) |->
                                     IF @[i].key = key THEN got ELSE @[i]],
                      !.hits = @ + 1,
                      !.prefetch_hits = IF entry.priority = PREFETCH
                                        THEN @ + 1 ELSE @,
                      !.now = t2]]
    ELSE [ret |-> None, c |-> [c EXCEPT !.misses = @ + 1]]

\* CacheManager.get, datetime.now() returning t1 at the expiry check and t2
\* when the access time is set: the entry returned (or None) and the cache
GetFn(c, key, t1, t2) ==
    IF HasKey(c.entries, key)
    THEN LET entry == EntryOf(c.entries, key)
             got == [entry EXCEPT !.accessed_at = t2]
         IN IF Expired(entry, t1)
            THEN [ret |-> None,
                  c |-> [RemoveEntry(c, key) EXCEPT !.misses = @ + 1,
                                                    !.now = t1]]
            ELSE [ret |-> Some(got),
                  c |-> [c EXCEPT
                           !.entries = [i \in 1..Len(@) |->
                                          IF @[i].key = key THEN got ELSE @[i]],
                           !.hits = @ + 1,
                           !.prefetch_hits = IF entry.priority = PREFETCH
                                             THEN @ + 1 ELSE @,
                           !.now = t2]]
    ELSE [ret |-> None, c |-> [c EXCEPT !.misses = @ + 1]]

\* the record kept of a call: had tells whether key was cached before it
Call(op, key, ok, evicted, ret, args, count) ==
    [op |-> op, key |-> key, ok |-> ok, evicted |-> evicted, ret |-> ret,
     args |-> args, count |-> count, had |-> HasKey(entries, key)]

\* ------------------------------------------------------------------------
\* CacheManager operations
\* ------------------------------------------------------------------------
Put(a) ==
    /\ nops < MaxOps
    /\ UNCHANGED <<ddilVars, hmVars, concVars>>
    /\ \E t \in ClockReadings(now) :
          LET r == PutFn(Self, a, t)
          IN /\ Store(r.c)
             /\ last' = Call("put", a.key, r.ok, r.c.evicted, None, Some(a), 0)
    /\ nops' = nops + 1

\* the clock is read at the expiry check only if the entry has an expiry
Get(key) ==
    /\ nops < MaxOps
    /\ UNCHANGED <<ddilVars, hmVars, concVars>>
    /\ \E t1 \in (IF HasKey(entries, key)
                      /\ EntryOf(entries, key).expires_at # None
                   THEN ClockReadings(now) ELSE {now}) :
          \E t2 \in ClockReadings(t1) :
             LET r == GetFn(Self, key, t1, t2)
             IN /\ Store(r.c)
                /\ last' = Call("get", key, r.ret # None, <<>>, r.ret, None, 0)
    /\ nops' = nops + 1

Remove(key) ==
    /\ nops < MaxOps
    /\ UNCHANGED <<ddilVars, hmVars, concVars>>
    /\ Store(RemoveEntry(Self, key))
    /\ last' = Call("remove", key, HasKey(entries, key), <<>>, None, None, 0)
    /\ nops' = nops + 1

\* for key in keys: _remove_entry(key)
RECURSIVE RemoveAll(_, _)
RemoveAll(c, ks) ==
    IF Len(ks) = 0 THEN c ELSE RemoveAll(RemoveEntry(c, Head(ks)), Tail(ks))

KeysOf(es) == [i \in 1..Len(es) |-> es[i].key]

ClearExpired ==
    /\ nops < MaxOps
    /\ UNCHANGED <<ddilVars, hmVars, concVars>>
    /\ \E t \in ClockReadings(now) :
          LET expired_keys == KeysOf(SelectSeq(entries,
                                               LAMBDA e : Expired(e, t)))
          IN /\ Store([RemoveAll(Self, expired_keys) EXCEPT !.now = t])
             /\ last' = Call("clear_expired", "", TRUE, <<>>, None, None,
                             Len(expired_keys))
    /\ nops' = nops + 1

ClearByPriority(priority) ==
    /\ nops < MaxOps
    /\ UNCHANGED <<ddilVars, hmVars, concVars>>
    /\ LET keys_to_remove == KeysOf(SelectSeq(entries,
                                     LAMBDA e : e.priority = priority))
       IN /\ Store(RemoveAll(Self, keys_to_remove))
          /\ last' = Call("clear_by_priority", "", TRUE, <<>>, None, None,
                          Len(keys_to_remove))
    /\ nops' = nops + 1

\* the loop of prefetch over keys, the i-th put reading the clock as ts[i]:
\* <<prefetched, cache>>
RECURSIVE PrefetchLoop(_, _, _, _, _)
PrefetchLoop(c, keys, ts, source, size_estimate_bytes) ==
    IF Len(keys) = 0
    THEN [count |-> 0, c |-> c]
    ELSE IF HasKey(c.entries, Head(keys))
         THEN PrefetchLoop(c, Tail(keys), Tail(ts), source,
                           size_estimate_bytes)
         ELSE LET r == PutFn(c, [key |-> Head(keys),
                                 size_bytes |-> size_estimate_bytes,
                                 source |-> source,
                                 priority |-> PREFETCH,
                                 ttl_hours |-> PrefetchTtlHours,
                                 checksum |-> "",
                                 metadata |-> <<>>],
                             Head(ts))
                  rest == PrefetchLoop(r.c, Tail(keys), Tail(ts), source,
                                       size_estimate_bytes)
              IN [count |-> rest.count + (IF r.ok THEN 1 ELSE 0),
                  c |-> rest.c]

\* the clock readings of n puts in a row, the clock having last read t
RECURSIVE Readings(_, _)
Readings(n, t) ==
    IF n = 0
    THEN {<<>>}
    ELSE UNION {{<<u>> \o r : r \in Readings(n - 1, u)} :
                   u \in ClockReadings(t)}

Prefetch(keys, source, size_estimate_bytes) ==
    /\ nops < MaxOps
    /\ UNCHANGED <<ddilVars, hmVars, concVars>>
    /\ \E ts \in Readings(Len(keys), now) :
          LET r == PrefetchLoop(Self, keys, ts, source, size_estimate_bytes)
          IN /\ Store(r.c)
             /\ last' = Call("prefetch", "", TRUE, r.c.evicted, None, None,
                             r.count)
    /\ nops' = nops + 1

\* ------------------------------------------------------------------------
\* CacheManager called from several threads
\* ------------------------------------------------------------------------
Threads == {"t1", "t2"}

\* a thread outside every call
NoCall == [pc |-> "idle", op |-> "", a |-> None, keys |-> <<>>, count |-> 0,
           ret |-> None]

\* the thread has returned from the call op with ret
Returned(op, ret) == [NoCall EXCEPT !.op = op, !.ret = Some(ret)]

\* the positions of a thread inside `with self._lock`
InsidePcs == {"put_inserted", "stats_used", "stats_read"}

\* entering `with self._lock` without waiting for the lock
CanEnter_NoLock(t) == TRUE

\* `with self._lock`: the thread goes on when no thread holds the lock
CanEnter(t) == cache_lock = "free"

\* the arguments of the puts made by concurrent threads
ConcPutArgs == {a \in PutArgs : a.priority \in {CRITICAL, NORMAL}
                                 /\ a.ttl_hours # 0}

\* the arguments prefetch hands to put for key
PrefetchArgs(key, source, size_estimate_bytes) ==
    [key |-> key, size_bytes |-> size_estimate_bytes, source |-> source,
     priority |-> PREFETCH, ttl_hours |-> PrefetchTtlHours, checksum |-> "",
     metadata |-> <<>>]

\* put by thread t from `with self._lock` to `self._entries[key] = entry`:
\* a refused put returns at once (the call record is refused); otherwise the
\* entry is stored and the used bytes are not yet counted
PutEnter(t, a, op, refused) ==
    /\ CanEnter(t)
    /\ \E u \in ClockReadings(now) :
          LET r == PutFn(Self, a, u)
          IN IF r.ok
             THEN /\ Store([r.c EXCEPT !.used_bytes = @ - a.size_bytes,
                                       !.prefetch_total = prefetch_total])
                  /\ cache_lock' = t
                  /\ tcall' = [tcall EXCEPT ![t].pc = "put_inserted",
                                            ![t].op = op,
                                            ![t].a = Some(a)]
             ELSE /\ Store(r.c)
                  /\ cache_lock' = cache_lock
                  /\ tcall' = [tcall EXCEPT ![t] = refused]

\* CacheManager.put called by thread t
CPut(t, a) ==
    /\ tcall[t].pc = "idle"
    /\ nops < MaxCalls
    /\ PutEnter(t, a, "put", Returned("put", FALSE))
    /\ nops' = nops + 1
    /\ UNCHANGED <<ddilVars, hmVars, last>>

\* the rest of put: self._used_bytes += size_bytes, the prefetch total,
\* the lock released; a put of prefetch goes on with the next key
CPutExit(t) ==
    /\ tcall[t].pc = "put_inserted"
    /\ used_bytes' = used_bytes + tcall[t].a[1].size_bytes
    /\ prefetch_total' = IF tcall[t].a[1].priority = PREFETCH
                         THEN prefetch_total + 1 ELSE prefetch_total
    /\ cache_lock' = "free"
    /\ tcall' = [tcall EXCEPT ![t] =
                    IF tcall[t].op = "prefetch"
                    THEN [@ EXCEPT !.pc = "prefetching", !.count = @ + 1]
                    ELSE Returned("put", TRUE)]
    /\ UNCHANGED <<ddilVars, hmVars, last, entries, hits, misses, evictions,
                   prefetch_hits, now, nops>>

CGet(t, key) ==
    /\ tcall[t].pc = "idle"
    /\ nops < MaxCalls
    /\ CanEnter(t)
    /\ \E t1 \in (IF HasKey(entries, key)
                      /\ EntryOf(entries, key).expires_at # None
                   THEN ClockReadings(now) ELSE {now}) :
          \E t2 \in ClockReadings(t1) :
             LET r == GetFn(Self, key, t1, t2)
             IN /\ Store(r.c)
                /\ tcall' = [tcall EXCEPT ![t] = Returned("get", r.ret)]
    /\ nops' = nops + 1
    /\ UNCHANGED <<ddilVars, hmVars, last, cache_lock>>

CRemove(t, key) ==
    /\ tcall[t].pc = "idle"
    /\ nops < MaxCalls
    /\ CanEnter(t)
    /\ Store(RemoveEntry(Self, key))
    /\ tcall' = [tcall EXCEPT ![t] = Returned("remove", HasKey(entries, key))]
    /\ nops' = nops + 1
    /\ UNCHANGED <<ddilVars, hmVars, last, cache_lock>>

CClearExpired(t) ==
    /\ tcall[t].pc = "idle"
    /\ nops < MaxCalls
    /\ CanEnter(t)
    /\ \E u \in ClockReadings(now) :
          LET expired_keys == KeysOf(SelectSeq(entries,
                                               LAMBDA e : Expired(e, u)))
          IN /\ Store([RemoveAll(Self, expired_keys) EXCEPT !.now = u])
             /\ tcall' = [tcall EXCEPT ![t] =
                             Returned("clear_expired", Len(expired_keys))]
    /\ nops' = nops + 1
    /\ UNCHANGED <<ddilVars, hmVars, last, cache_lock>>

CClearByPriority(t, priority) ==
    /\ tcall[t].pc = "idle"
    /\ nops < MaxCalls
    /\ CanEnter(t)
    /\ LET keys_to_remove == KeysOf(SelectSeq(entries,
                                     LAMBDA e : e.priority = priority))
       IN /\ Store(RemoveAll(Self, keys_to_remove))
          /\ tcall' = [tcall EXCEPT ![t] =
                          Returned("clear_by_priority", Len(keys_to_remove))]
    /\ nops' = nops + 1
    /\ UNCHANGED <<ddilVars, hmVars, last, cache_lock>>

\* get_statistics by thread t: the lock taken, self._used_bytes read
CStatsEnter(t) ==
    /\ tcall[t].pc = "idle"
    /\ nops < MaxCalls
    /\ CanEnter(t)
    /\ cache_lock' = t
    /\ tcall' = [tcall EXCEPT ![t] =
                    [NoCall EXCEPT !.pc = "stats_used",
                                   !.op = "get_statistics",
                                   !.ret = Some([used_bytes |-> used_bytes,
                                                 entry_count |-> 0])]]
    /\ nops' = nops + 1
    /\ UNCHANGED <<ddilVars, hmVars, last, entries, used_bytes, hits, misses,
                   evictions, prefetch_hits, prefetch_total, now>>

\* get_statistics: len(self._entries) read
CStatsRead(t) ==
    /\ tcall[t].pc = "stats_used"
    /\ tcall' = [tcall EXCEPT ![t].pc = "stats_read",
                              ![t].ret[1].entry_count = Len(entries)]
    /\ UNCHANGED <<ddilVars, hmVars, last, entries, used_bytes, hits, misses,
                   evictions, prefetch_hits, prefetch_total, now, nops,
                   cache_lock>>

\* get_statistics returns and releases the lock
CStatsExit(t) ==
    /\ tcall[t].pc = "stats_read"
    /\ cache_lock' = "free"
    /\ tcall' = [tcall EXCEPT ![t].pc = "idle"]
    /\ UNCHANGED <<ddilVars, hmVars, last, entries, used_bytes, hits, misses,
                   evictions, prefetch_hits, prefetch_total, now, nops>>

\* CacheManager.prefetch called by thread t
CPrefetch(t, keys, source, size_estimate_bytes) ==
    /\ tcall[t].pc = "idle"
    /\ nops < MaxCalls
    /\ tcall' = [tcall EXCEPT ![t] =
                    [NoCall EXCEPT !.pc = "prefetching", !.op = "prefetch",
                                   !.keys = keys,
                                   !.a = Some(PrefetchArgs(
                                             "", source,
                                             size_estimate_bytes))]]
    /\ nops' = nops + 1
    /\ UNCHANGED <<ddilVars, hmVars, last, entries, used_bytes, hits, misses,
                   evictions, prefetch_hits, prefetch_total, now, cache_lock>>

\* prefetch: `for key in keys: if key not in self._entries`, read without
\* the lock; after the last key the call returns the count
CPrefetchCheck(t) ==
    /\ tcall[t].pc = "prefetching"
    /\ tcall' = [tcall EXCEPT ![t] =
                    IF Len(tcall[t].keys) = 0
                    THEN Returned("prefetch", tcall[t].count)
                    ELSE [@ EXCEPT
                            !.pc = IF HasKey(entries, Head(tcall[t].keys))
                                   THEN "prefetching" ELSE "checked",
                            !.a[1].key = Head(tcall[t].keys),
                            !.keys = Tail(@)]]
    /\ UNCHANGED <<ddilVars, hmVars, last, entries, used_bytes, hits, misses,
                   evictions, prefetch_hits, prefetch_total, now, nops,
                   cache_lock>>

\* prefetch: self.put(key, ..., priority=PREFETCH, ttl_hours=24)
CPrefetchPut(t) ==
    /\ tcall[t].pc = "checked"
    /\ PutEnter(t, tcall[t].a[1], "prefetch",
                [tcall[t] EXCEPT !.pc = "prefetching"])
    /\ UNCHANGED <<ddilVars, hmVars, last, nops>>

\* ------------------------------------------------------------------------
\* DDILController
\* ------------------------------------------------------------------------
\* NetworkMode values; the paths dict holds every mode but OFFLINE, in the
\* order of the enum
SATELLITE == "satellite"
CELLULAR_5G == "cellular_5g"
LORA_MESH == "lora_mesh"
HF_RADIO == "hf_radio"
WIRED == "wired"
OFFLINE == "offline"
\* active_mode before the first selection (Python None)
NoMode == "none"

PathOrder == <<SATELLITE, CELLULAR_5G, LORA_MESH, HF_RADIO, WIRED>>
PathModes == {PathOrder[i] : i \in 1..Len(PathOrder)}
NetworkMode == PathModes \cup {OFFLINE}

\* ConnectionState values
DISCONNECTED == "disconnected"
CONNECTING == "connecting"
CONNECTED == "connected"
DEGRADED == "degraded"
FAILING == "failing"

DEFAULT_PRIORITIES ==
    [m \in PathModes |->
        CASE m = WIRED -> 1
          [] m = CELLULAR_5G -> 2
          [] m = SATELLITE -> 3
          [] m = LORA_MESH -> 4
          [] m = HF_RADIO -> 5]

\* signal_strength_dbm above which a refreshed path is CONNECTED
ConnectedAboveDbm == -95

\* _simulate_path_metrics draws latency_ms = base + uniform(...): the base
LatencyDraws(m) ==
    CASE m = SATELLITE -> {40}
      [] m = CELLULAR_5G -> {10}
      [] m = LORA_MESH -> {100}
      [] m = HF_RADIO -> {500}
      [] m = WIRED -> {1}

\* signal_strength_dbm = base + uniform(-r, r): the base, or both ends of
\* the range when the range crosses the threshold
SignalDraws(m) ==
    CASE m = SATELLITE -> {-65}
      [] m = CELLULAR_5G -> {-75}
      [] m = LORA_MESH -> {-100, -80}
      [] m = HF_RADIO -> {-110, -90}
      [] m = WIRED -> {0}

\* NetworkPath(mode, priority): the dataclass defaults
NetworkPath(m, priority) ==
    [mode |-> m, state |-> DISCONNECTED, latency_ms |-> 0,
     signal_strength_dbm |-> -100, priority |-> priority, enabled |-> TRUE]

\* the events of DDILController._callbacks
Events == {"path_change", "handover", "ddil_enter", "ddil_exit"}

\* position of a mode in the order of the path table
PositionOf(m) == CHOOSE i \in 1..Len(PathOrder) : PathOrder[i] = m

\* DDILController as a record of its fields; during a call, faulty holds the
\* callbacks <<event, i>> that raise when invoked, fired the callbacks
\* invoked so far, and raised tells that an exception is propagating
Ctl == [paths |-> paths, active_mode |-> active_mode,
        callbacks |-> callbacks, faulty |-> {}, fired |-> <<>>,
        raised |-> FALSE]

\* available_paths of _select_best_path, in dict order
AvailablePaths(d) ==
    SelectSeq(PathOrder, LAMBDA m : /\ d.paths[m].enabled
                                    /\ d.paths[m].state \in {CONNECTED, DEGRADED})

\* calls of the i-th ddil_enter callback among the invocations fired
EnterCount(fired, i) ==
    Cardinality({j \in 1..Len(fired) : fired[j] = <<"ddil_enter", i>>})

\* the calls counted in enter_calls once the call that leaves d has ended;
\* the callbacks watched are those of DOMAIN enter_calls
EnterCalls(d) ==
    [i \in DOMAIN enter_calls |->
        IF Len(AvailablePaths(d)) > 0
        THEN 0
        ELSE enter_calls[i] + EnterCount(d.fired, i)]

StoreCtl(d) ==
    LET calls == EnterCalls(d)
    IN /\ \A i \in DOMAIN calls : calls[i] <= MaxEnterCalls
       /\ paths' = d.paths
       /\ active_mode' = d.active_mode
       /\ callbacks' = d.callbacks
       /\ enter_calls' = calls

\* for callback in self._callbacks[event]: callback(...), from the i-th on;
\* a callback that raises ends the loop
RECURSIVE InvokeCallbacks(_, _, _)
InvokeCallbacks(d, event, i) ==
    IF i > d.callbacks[event]
    THEN d
    ELSE LET e == [d EXCEPT !.fired = Append(@, <<event, i>>)]
         IN IF <<event, i>> \in d.faulty
            THEN [e EXCEPT !.raised = TRUE]
            ELSE InvokeCallbacks(e, event, i + 1)

\* the record kept of a controller call
DCall(op, target, ok, d) ==
    [op |-> op, target |-> target, ok |-> ok, fired |-> d.fired,
     raised |-> d.raised]

\* DDILController._simulate_path_metrics with the drawn latency and signal
SimulatePathMetrics(path, latency_ms, signal_strength_dbm) ==
    [path EXCEPT !.latency_ms = latency_ms,
                 !.signal_strength_dbm = signal_strength_dbm,
                 !.state = IF signal_strength_dbm > ConnectedAboveDbm
                           THEN CONNECTED ELSE DEGRADED]

\* DDILController._update_path_status, lat and sig being the draws per mode
UpdatePathStatus(d, lat, sig) ==
    [d EXCEPT !.paths = [m \in PathModes |->
                            IF ~d.paths[m].enabled
                            THEN d.paths[m]
                            ELSE SimulatePathMetrics(d.paths[m], lat[m],
                                                     sig[m])]]

\* _update_path_status when polling the path failing raises: the paths
\* before it in the table have been refreshed, the exception leaves the loop
UpdatePathStatusRaising(d, lat, sig, failing) ==
    [d EXCEPT !.paths = [m \in PathModes |->
                            IF \/ ~d.paths[m].enabled
                               \/ PositionOf(m) >= PositionOf(failing)
                            THEN d.paths[m]
                            ELSE SimulatePathMetrics(d.paths[m], lat[m],
                                                     sig[m])],
              !.raised = TRUE]

\* DDILController._perform_handover
PerformHandover(d, new_mode) ==
    InvokeCallbacks([d EXCEPT !.active_mode = new_mode], "handover", 1)

\* DDILController._enter_ddil_mode
EnterDdilMode(d) ==
    InvokeCallbacks([d EXCEPT !.active_mode = OFFLINE], "ddil_enter", 1)

\* the sort key without the latency
PathSortsBefore_PriorityOnly(x, y) == x.priority < y.priority

\* (priority, latency_ms) of x sorts strictly before that of y
PathSortsBefore(x, y) ==
    \/ x.priority < y.priority
    \/ x.priority = y.priority /\ x.latency_ms < y.latency_ms

\* available_paths.sort(...)[0] (a stable sort)
BestMode(d) ==
    LET av == AvailablePaths(d)
    IN av[CHOOSE i \in 1..Len(av) :
             /\ \A j \in 1..Len(av) :
                   ~PathSortsBefore(d.paths[av[j]], d.paths[av[i]])
             /\ \A j \in 1..(i - 1) :
                   PathSortsBefore(d.paths[av[i]], d.paths[av[j]])]

\* DDILController._select_best_path
SelectBestPath(d) ==
    IF Len(AvailablePaths(d)) = 0
    THEN IF d.active_mode # OFFLINE THEN EnterDdilMode(d) ELSE d
    ELSE IF BestMode(d) # d.active_mode
         THEN PerformHandover(d, BestMode(d))
         ELSE d

\* the callbacks that may raise in a call which invokes the callbacks fired
\* when none raises: none, or one of them
Raising(fired) == {{}} \cup {{fired[j]} : j \in 1..Len(fired)}

\* a call of _select_best_path on its own
RunSelection ==
    /\ LET run(f) == SelectBestPath([Ctl EXCEPT !.faulty = f])
       IN \E f \in Raising(run({}).fired) :
             LET d == run(f)
             IN /\ StoreCtl(d)
                /\ dlast' = DCall("select", "", TRUE, d)
    /\ UNCHANGED <<cacheVars, threadVars, hmVars>>

\* a failover evaluation that re-selects in every cycle
CheckHandoverNeeded_Always(d) == SelectBestPath(d)

\* DDILController._check_handover_needed
CheckHandoverNeeded(d) ==
    IF d.active_mode = NoMode
    THEN SelectBestPath(d)
    ELSE IF \/ d.active_mode \notin PathModes
            \/ d.paths[d.active_mode].state \in {DISCONNECTED, FAILING}
         THEN SelectBestPath(d)
         ELSE d

\* DDILController.get_status().mode
StatusMode == IF active_mode # OFFLINE THEN "connected" ELSE "ddil"

\* the body of _monitor_loop once: refresh, then failover evaluation; an
\* exception of a callback is caught by the loop
Cycle ==
    \E l1 \in LatencyDraws(SATELLITE), l2 \in LatencyDraws(CELLULAR_5G),
       l3 \in LatencyDraws(LORA_MESH), l4 \in LatencyDraws(HF_RADIO),
       l5 \in LatencyDraws(WIRED),
       s1 \in SignalDraws(SATELLITE), s2 \in SignalDraws(CELLULAR_5G),
       s3 \in SignalDraws(LORA_MESH), s4 \in SignalDraws(HF_RADIO),
       s5 \in SignalDraws(WIRED) :
       LET lat == (SATELLITE :> l1) @@ (CELLULAR_5G :> l2)
                    @@ (LORA_MESH :> l3) @@ (HF_RADIO :> l4) @@ (WIRED :> l5)
           sig == (SATELLITE :> s1) @@ (CELLULAR_5G :> s2)
                    @@ (LORA_MESH :> s3) @@ (HF_RADIO :> s4) @@ (WIRED :> s5)
           run(f) == CheckHandoverNeeded(
                         UpdatePathStatus([Ctl EXCEPT !.faulty = f], lat, sig))
       IN \E f \in Raising(run({}).fired) :
             LET d == run(f)
             IN /\ StoreCtl(d)
                /\ dlast' = DCall("cycle", "", TRUE, d)

\* one pass of the body of _monitor_loop
MonitorCycle ==
    /\ Cycle
    /\ UNCHANGED <<cacheVars, threadVars, hmVars>>

\* no cycle is between its selection and its assignment of active_mode
NoPending == "idle"
\* the selection of the cycle found nothing to change
Keep == "keep"

\* the monitoring thread up to the point where _select_best_path has chosen
\* best_mode (or _enter_ddil_mode) and has not yet assigned active_mode:
\* the controller has no lock, so calls of other threads run in between
CycleEvaluate ==
    /\ pending = NoPending
    /\ \E l1 \in LatencyDraws(SATELLITE), l2 \in LatencyDraws(CELLULAR_5G),
          l3 \in LatencyDraws(LORA_MESH), l4 \in LatencyDraws(HF_RADIO),
          l5 \in LatencyDraws(WIRED),
          s1 \in SignalDraws(SATELLITE), s2 \in SignalDraws(CELLULAR_5G),
          s3 \in SignalDraws(LORA_MESH), s4 \in SignalDraws(HF_RADIO),
          s5 \in SignalDraws(WIRED) :
          LET lat == (SATELLITE :> l1) @@ (CELLULAR_5G :> l2)
                       @@ (LORA_MESH :> l3) @@ (HF_RADIO :> l4) @@ (WIRED :> l5)
              sig == (SATELLITE :> s1) @@ (CELLULAR_5G :> s2)
                       @@ (LORA_MESH :> s3) @@ (HF_RADIO :> s4) @@ (WIRED :> s5)
              r == UpdatePathStatus(Ctl, lat, sig)
              d == CheckHandoverNeeded(r)
          IN /\ paths' = r.paths
             /\ pending' = IF d.active_mode = active_mode THEN Keep
                                                          ELSE d.active_mode
    /\ UNCHANGED <<cacheVars, hmVars, active_mode, callbacks, enter_calls,
                   dlast, running, mon_pc, stop_pc, old_pc>>

\* the rest of the cycle: _perform_handover or _enter_ddil_mode assigns
\* active_mode and runs the callbacks
CycleCommit ==
    /\ pending # NoPending
    /\ LET run(f) == LET c == [Ctl EXCEPT !.faulty = f]
                     IN IF pending = Keep THEN c
                        ELSE IF pending = OFFLINE THEN EnterDdilMode(c)
                        ELSE PerformHandover(c, pending)
       IN \E f \in Raising(run({}).fired) :
             LET d == run(f)
             IN /\ StoreCtl(d)
                /\ dlast' = DCall("cycle", "", TRUE, d)
    /\ pending' = NoPending
    /\ UNCHANGED <<cacheVars, hmVars, running, mon_pc, stop_pc, old_pc>>

EnablePath(mode) ==
    /\ LET d == IF mode \in PathModes
                THEN [Ctl EXCEPT !.paths[mode].enabled = TRUE]
                ELSE Ctl
       IN /\ StoreCtl(d)
          /\ dlast' = DCall("enable_path", mode, TRUE, d)
    /\ UNCHANGED <<cacheVars, threadVars, hmVars>>

\* disable_path without the re-selection
DisablePath_NoReselect(mode) ==
    /\ LET d == IF mode \in PathModes
                THEN [Ctl EXCEPT !.paths[mode].enabled = FALSE]
                ELSE Ctl
       IN /\ StoreCtl(d)
          /\ dlast' = DCall("disable_path", mode, TRUE, d)
    /\ UNCHANGED <<cacheVars, threadVars, hmVars>>

DisablePath(mode) ==
    /\ LET run(f) ==
               LET c == [Ctl EXCEPT !.faulty = f]
               IN IF mode \in PathModes
                  THEN LET e == [c EXCEPT !.paths[mode].enabled = FALSE]
                       IN IF e.active_mode = mode THEN SelectBestPath(e) ELSE e
                  ELSE c
       IN \E f \in Raising(run({}).fired) :
             LET d == run(f)
             IN /\ StoreCtl(d)
                /\ dlast' = DCall("disable_path", mode, TRUE, d)
    /\ UNCHANGED <<cacheVars, threadVars, hmVars>>

\* force_handover without the test of path.enabled
ForceHandover_IgnoreEnabled(target_mode) ==
    /\ LET d == IF target_mode \notin PathModes
                THEN Ctl
                ELSE PerformHandover(Ctl, target_mode)
       IN /\ StoreCtl(d)
          /\ dlast' = DCall("force_handover", target_mode,
                            target_mode \in PathModes, d)
    /\ UNCHANGED <<cacheVars, threadVars, hmVars>>

\* ok is the value returned, when the call returns
ForceHandover(target_mode) ==
    /\ LET refused == \/ target_mode \notin PathModes
                      \/ ~paths[target_mode].enabled
           run(f) == LET c == [Ctl EXCEPT !.faulty = f]
                     IN IF refused THEN c ELSE PerformHandover(c, target_mode)
       IN \E f \in Raising(run({}).fired) :
             LET d == run(f)
             IN /\ StoreCtl(d)
                /\ dlast' = DCall("force_handover", target_mode,
                                  ~refused /\ ~d.raised, d)
    /\ UNCHANGED <<cacheVars, threadVars, hmVars>>

\* one pass of the body of _monitor_loop in which polling the enabled path
\* failing raises: the except of the loop catches it, the failover
\* evaluation is skipped
MonitorCyclePollRaises(failing) ==
    /\ paths[failing].enabled
    /\ \E l1 \in LatencyDraws(SATELLITE), l2 \in LatencyDraws(CELLULAR_5G),
          l3 \in LatencyDraws(LORA_MESH), l4 \in LatencyDraws(HF_RADIO),
          l5 \in LatencyDraws(WIRED),
          s1 \in SignalDraws(SATELLITE), s2 \in SignalDraws(CELLULAR_5G),
          s3 \in SignalDraws(LORA_MESH), s4 \in SignalDraws(HF_RADIO),
          s5 \in SignalDraws(WIRED) :
          LET lat == (SATELLITE :> l1) @@ (CELLULAR_5G :> l2)
                       @@ (LORA_MESH :> l3) @@ (HF_RADIO :> l4) @@ (WIRED :> l5)
              sig == (SATELLITE :> s1) @@ (CELLULAR_5G :> s2)
                       @@ (LORA_MESH :> s3) @@ (HF_RADIO :> s4) @@ (WIRED :> s5)
              d == UpdatePathStatusRaising(Ctl, lat, sig, failing)
          IN /\ StoreCtl(d)
             /\ dlast' = DCall("cycle", failing, TRUE, d)
    /\ UNCHANGED <<cacheVars, threadVars, hmVars>>

\* the positions of a monitoring thread that is alive
Live == {"test", "body", "callback", "wait"}

\* DDILController.start called by the thread that calls stop: it tests
\* _running only, so after a stop whose join timed out it creates a new
\* thread while the earlier one is alive; _monitor_thread then names the new
\* one. One earlier thread is followed
Start ==
    /\ ~running
    /\ stop_pc # "joining"
    /\ mon_pc \in Live => old_pc \notin Live
    /\ running' = TRUE
    /\ old_pc' = IF mon_pc \in Live THEN mon_pc ELSE old_pc
    /\ mon_pc' = "test"
    /\ stop_pc' = "idle"
    /\ UNCHANGED <<cacheVars, hmVars, paths, active_mode, callbacks, enter_calls,
                   dlast, pending>>

\* _monitor_loop: while self._running
LoopTest ==
    /\ mon_pc = "test"
    /\ mon_pc' = IF running THEN "body" ELSE "done"
    /\ UNCHANGED <<cacheVars, hmVars, paths, active_mode, callbacks, enter_calls,
                   dlast, running, stop_pc, old_pc, pending>>

\* _monitor_loop: the body; active_mode is assigned before the callbacks of
\* a handover run, so the thread may still be inside them afterwards
MonitorBody ==
    /\ mon_pc = "body"
    /\ Cycle
    /\ mon_pc' = IF dlast'.fired # <<>> /\ ~dlast'.raised THEN "callback"
                                                          ELSE "wait"
    /\ UNCHANGED <<cacheVars, hmVars, running, stop_pc, old_pc, pending>>

\* the callbacks of the cycle return
CallbackReturns ==
    /\ mon_pc = "callback"
    /\ mon_pc' = "wait"
    /\ UNCHANGED <<cacheVars, hmVars, paths, active_mode, callbacks, enter_calls,
                   dlast, running, stop_pc, old_pc, pending>>

\* _monitor_loop: self._stop_event.wait(timeout=1.0) returns
MonitorWait ==
    /\ mon_pc = "wait"
    /\ mon_pc' = "test"
    /\ UNCHANGED <<cacheVars, hmVars, paths, active_mode, callbacks, enter_calls,
                   dlast, running, stop_pc, old_pc, pending>>

\* the same steps of _monitor_loop taken by the thread of the earlier start
OldLoopTest ==
    /\ old_pc = "test"
    /\ old_pc' = IF running THEN "body" ELSE "done"
    /\ UNCHANGED <<cacheVars, hmVars, paths, active_mode, callbacks, enter_calls,
                   dlast, running, stop_pc, mon_pc, pending>>

OldMonitorBody ==
    /\ old_pc = "body"
    /\ Cycle
    /\ old_pc' = IF dlast'.fired # <<>> /\ ~dlast'.raised THEN "callback"
                                                          ELSE "wait"
    /\ UNCHANGED <<cacheVars, hmVars, running, stop_pc, mon_pc, pending>>

OldCallbackReturns ==
    /\ old_pc = "callback"
    /\ old_pc' = "wait"
    /\ UNCHANGED <<cacheVars, hmVars, paths, active_mode, callbacks, enter_calls,
                   dlast, running, stop_pc, mon_pc, pending>>

OldMonitorWait ==
    /\ old_pc = "wait"
    /\ old_pc' = "test"
    /\ UNCHANGED <<cacheVars, hmVars, paths, active_mode, callbacks, enter_calls,
                   dlast, running, stop_pc, mon_pc, pending>>

\* DDILController.stop up to the join
Stop ==
    /\ stop_pc # "joining"
    /\ running' = FALSE
    /\ stop_pc' = IF mon_pc = "none" THEN "returned" ELSE "joining"
    /\ UNCHANGED <<cacheVars, hmVars, paths, active_mode, callbacks, enter_calls,
                   dlast, mon_pc, old_pc, pending>>

\* self._monitor_thread.join(timeout=5) returns: the thread has ended, or
\* the five seconds have passed while the thread is inside a slow callback
JoinReturns ==
    /\ stop_pc = "joining"
    /\ mon_pc \in {"done", "callback"}
    /\ stop_pc' = "returned"
    /\ UNCHANGED <<cacheVars, hmVars, paths, active_mode, callbacks, enter_calls,
                   dlast, running, mon_pc, old_pc, pending>>

\* the thread fields after DDILController.__init__
ThreadInit ==
    /\ running = FALSE
    /\ mon_pc = "none"
    /\ stop_pc = "idle"
    /\ old_pc = "none"
    /\ pending = NoPending

\* DDILController.__init__
DDILInit ==
    /\ paths = [m \in PathModes |-> NetworkPath(m, DEFAULT_PRIORITIES[m])]
    /\ active_mode = NoMode
    /\ callbacks = [e \in Events |-> 0]
    /\ enter_calls = <<>>
    /\ dlast = [op |-> "init", target |-> "", ok |-> TRUE, fired |-> <<>>,
                raised |-> FALSE]
    /\ ThreadInit

\* DDILController.__init__, then register_callback NCallbacks times for
\* every event
DDILInitCallbacks ==
    /\ paths = [m \in PathModes |-> NetworkPath(m, DEFAULT_PRIORITIES[m])]
    /\ active_mode = NoMode
    /\ callbacks = [e \in Events |-> NCallbacks]
    /\ enter_calls = <<>>
    /\ dlast = [op |-> "register_callback", target |-> "", ok |-> TRUE,
                fired |-> <<>>, raised |-> FALSE]
    /\ ThreadInit

\* the same, the calls of every ddil_enter callback being counted
DDILInitWatched ==
    /\ paths = [m \in PathModes |-> NetworkPath(m, DEFAULT_PRIORITIES[m])]
    /\ active_mode = NoMode
    /\ callbacks = [e \in Events |-> NCallbacks]
    /\ enter_calls = [i \in 1..NCallbacks |-> 0]
    /\ dlast = [op |-> "register_callback", target |-> "", ok |-> TRUE,
                fired |-> <<>>, raised |-> FALSE]
    /\ ThreadInit

\* ------------------------------------------------------------------------
\* HandoverManager
\* ------------------------------------------------------------------------
\* HandoverManager.TARGET_HANDOVER_MS
TARGET_HANDOVER_MS == 100

MAKE_BEFORE_BREAK == "make_before_break"
BREAK_BEFORE_MAKE == "break_before_make"
SEAMLESS == "seamless"
HandoverStrategy == {MAKE_BEFORE_BREAK, BREAK_BEFORE_MAKE, SEAMLESS}

\* inputs of execute_handover
SourcePaths == {"satellite"}
TargetPaths == {"cellular"}
\* the exception a stage raises: none, or one with this message
StageErrors == {None, Some("link down")}

\* duration_ms = time spent in the stages: the sleeps of the strategy, or
\* longer when the sleeps overrun
DurationDraws(st) ==
    CASE st = MAKE_BEFORE_BREAK -> {90, 120}
      [] st = BREAK_BEFORE_MAKE -> {80, 120}
      [] st = SEAMLESS -> {80, 120}

\* the value the stage function of a strategy returns
PacketsLost(st) ==
    CASE st = MAKE_BEFORE_BREAK -> 0
      [] st = BREAK_BEFORE_MAKE -> 2
      [] st = SEAMLESS -> 0

\* HandoverMetrics of a completed strategy (start_time and end_time are
\* left out)
CompletedMetrics(source_path, target_path, use_strategy, duration_ms) ==
    [source_path |-> source_path, target_path |-> target_path,
     strategy |-> use_strategy, duration_ms |-> duration_ms,
     packets_lost |-> PacketsLost(use_strategy), success |-> TRUE,
     error_message |-> None]

\* a failed attempt recorded as if it had completed
FailedMetrics_AsCompleted(source_path, target_path, use_strategy, duration_ms, message) ==
    CompletedMetrics(source_path, target_path, use_strategy, duration_ms)

\* HandoverMetrics built in the except branch
FailedMetrics(source_path, target_path, use_strategy, duration_ms, message) ==
    [source_path |-> source_path, target_path |-> target_path,
     strategy |-> use_strategy, duration_ms |-> duration_ms,
     packets_lost |-> -1, success |-> FALSE,
     error_message |-> Some(message)]

\* the record kept of a call of the manager
HCall(op, returned, ret, error) ==
    [op |-> op, returned |-> returned, ret |-> ret, error |-> error]

\* HandoverManager.execute_handover; an exception of a callback is caught
\* inside the call
ExecuteHandover(source_path, target_path, strategy_arg, error) ==
    /\ lock = "free"
    /\ Len(handover_history) < MaxHandovers
    /\ LET use_strategy == IF strategy_arg # None THEN strategy_arg[1]
                                                  ELSE strategy
       IN \E duration_ms \in DurationDraws(use_strategy) :
             LET metrics ==
                   IF error = None
                   THEN CompletedMetrics(source_path, target_path,
                                         use_strategy, duration_ms)
                   ELSE FailedMetrics(source_path, target_path, use_strategy,
                                      duration_ms, error[1])
             IN /\ handover_history' = Append(handover_history, metrics)
                /\ hlast' = HCall("execute_handover", TRUE, metrics, error)
    /\ UNCHANGED <<cacheVars, ddilVars, strategy, lock>>

\* the successful records of a history
Successful(history) == SelectSeq(history, LAMBDA h : h.success)

RECURSIVE SumPacketsLost(_)
SumPacketsLost(history) ==
    IF Len(history) = 0 THEN 0
    ELSE Head(history).packets_lost + SumPacketsLost(Tail(history))

RECURSIVE SumDurations(_)
SumDurations(history) ==
    IF Len(history) = 0 THEN 0
    ELSE Head(history).duration_ms + SumDurations(Tail(history))

\* the average of get_average_handover_time as the pair <<sum, count>> of
\* the division it makes; <<0, 1>> is the 0.0 of its early returns
AverageHandoverTime(history) ==
    IF Len(Successful(history)) = 0 THEN <<0, 1>>
    ELSE <<SumDurations(Successful(history)), Len(Successful(history))>>

\* HandoverManager.get_average_handover_time: takes the lock, returns
GetAverageHandoverTime ==
    /\ lock = "free"
    /\ hlast' = HCall("get_average_handover_time", TRUE,
                      AverageHandoverTime(handover_history), None)
    /\ UNCHANGED <<cacheVars, ddilVars, strategy, handover_history, lock>>

\* HandoverManager.get_handover_success_rate, the percentage as the pair
\* <<successful * 100, count>> of the division it makes
GetHandoverSuccessRate ==
    /\ lock = "free"
    /\ hlast' = HCall("get_handover_success_rate", TRUE,
                      IF Len(handover_history) = 0 THEN <<100, 1>>
                      ELSE <<Len(Successful(handover_history)) * 100,
                             Len(handover_history)>>, None)
    /\ UNCHANGED <<cacheVars, ddilVars, strategy, handover_history, lock>>

\* HandoverManager.meets_target_latency called from outside: it takes the
\* lock inside get_average_handover_time and compares with the target
MeetsTargetLatency ==
    /\ lock = "free"
    /\ LET avg == AverageHandoverTime(handover_history)
       IN hlast' = HCall("meets_target_latency", TRUE,
                         avg[1] <= TARGET_HANDOVER_MS * avg[2], None)
    /\ UNCHANGED <<cacheVars, ddilVars, strategy, handover_history, lock>>

\* HandoverManager.get_statistics: with an empty history it returns the
\* zero statistics; otherwise it calls meets_target_latency while it holds
\* the lock, get_average_handover_time waits for the same lock, and the call
\* never returns
GetStatistics ==
    /\ lock = "free"
    /\ IF Len(handover_history) = 0
       THEN /\ hlast' = HCall("get_statistics", TRUE,
                              [total_handovers |-> 0, successful |-> 0,
                               failed |-> 0, total_packets_lost |-> 0,
                               meets_target |-> TRUE], None)
            /\ lock' = "free"
       ELSE /\ hlast' = HCall("get_statistics", FALSE, None, None)
            /\ lock' = "held"
    /\ UNCHANGED <<cacheVars, ddilVars, strategy, handover_history>>

\* HandoverManager.__init__
HMInit ==
    /\ strategy \in HandoverStrategy
    /\ handover_history = <<>>
    /\ lock = "free"
    /\ hlast = HCall("init", TRUE, None, None)

\* no manager is constructed
NoManager ==
    /\ strategy = MAKE_BEFORE_BREAK
    /\ handover_history = <<>>
    /\ lock = "free"
    /\ hlast = <<>>

\* ------------------------------------------------------------------------
\* Specification of the cache
\* ------------------------------------------------------------------------
CacheInit ==
    /\ entries = <<>>
    /\ used_bytes = 0
    /\ hits = 0
    /\ misses = 0
    /\ evictions = 0
    /\ prefetch_hits = 0
    /\ prefetch_total = 0
    /\ now = 0
    /\ nops = 0
    /\ last = Call("init", "", TRUE, <<>>, None, None, 0)
    /\ cache_lock = "free"
    /\ tcall = [t \in Threads |-> NoCall]

\* the cache is used on its own: no controller is constructed
NoController ==
    /\ paths = <<>>
    /\ active_mode = NoMode
    /\ callbacks = <<>>
    /\ enter_calls = <<>>
    /\ dlast = <<>>
    /\ ThreadInit

Init == CacheInit /\ NoController /\ NoManager

DoPut == \E a \in PutArgs : Put(a)
DoGet == \E k \in Keys : Get(k)
DoRemove == \E k \in Keys : Remove(k)
DoClearByPriority == \E p \in CachePriority : ClearByPriority(p)
DoPrefetch == \E ks \in KeyLists, s \in Sources, z \in Sizes : Prefetch(ks, s, z)

Next ==
    \/ DoPut
    \/ DoGet
    \/ DoRemove
    \/ ClearExpired
    \/ DoClearByPriority
    \/ DoPrefetch

Spec == Init /\ [][Next]_vars

\* the cache called from the threads of Threads
NextConc ==
    \/ \E t \in Threads, a \in ConcPutArgs : CPut(t, a)
    \/ \E t \in Threads : CPutExit(t)
    \/ \E t \in Threads, k \in Keys : CGet(t, k)
    \/ \E t \in Threads, k \in Keys : CRemove(t, k)
    \/ \E t \in Threads : CClearExpired(t)
    \/ \E t \in Threads, p \in CachePriority : CClearByPriority(t, p)
    \/ \E t \in Threads : CStatsEnter(t)
    \/ \E t \in Threads : CStatsRead(t)
    \/ \E t \in Threads : CStatsExit(t)
    \/ \E t \in Threads, ks \in KeyLists, s \in Sources, z \in Sizes :
          CPrefetch(t, ks, s, z)
    \/ \E t \in Threads : CPrefetchCheck(t)
    \/ \E t \in Threads : CPrefetchPut(t)

SpecConc == Init /\ [][NextConc]_vars

\* ------------------------------------------------------------------------
\* Specification of the controller
\* ------------------------------------------------------------------------
DoEnablePath == \E m \in NetworkMode : EnablePath(m)
DoDisablePath == \E m \in NetworkMode : DisablePath(m)
DoForceHandover == \E m \in NetworkMode : ForceHandover(m)

NextDDIL ==
    \/ MonitorCycle
    \/ DoEnablePath
    \/ DoDisablePath
    \/ DoForceHandover

\* the controller is used on its own: its cache is never called
InitDDIL == CacheInit /\ DDILInit /\ NoManager

SpecDDIL == InitDDIL /\ [][NextDDIL]_vars

\* the controller with callbacks registered for every event
InitCallbacks == CacheInit /\ DDILInitCallbacks /\ NoManager

SpecCallbacks == InitCallbacks /\ [][NextDDIL]_vars

\* the same controller, the calls of its ddil_enter callbacks counted
InitWatched == CacheInit /\ DDILInitWatched /\ NoManager

SpecWatched == InitWatched /\ [][NextDDIL]_vars

\* the monitoring cycle may fail while polling a path
DoMonitorCyclePollRaises == \E m \in PathModes : MonitorCyclePollRaises(m)

NextPoll ==
    \/ MonitorCycle
    \/ DoMonitorCyclePollRaises
    \/ DoEnablePath
    \/ DoDisablePath
    \/ DoForceHandover

SpecPoll == InitDDIL /\ [][NextPoll]_vars

\* the monitoring cycle of one thread interleaved with enable_path and
\* disable_path called by another
NextRace ==
    \/ CycleEvaluate
    \/ CycleCommit
    \/ DoEnablePath
    \/ DoDisablePath

SpecRace == InitDDIL /\ [][NextRace]_vars

\* the monitoring thread, started and stopped
NextThread ==
    \/ Start
    \/ LoopTest
    \/ MonitorBody
    \/ CallbackReturns
    \/ MonitorWait
    \/ OldLoopTest
    \/ OldMonitorBody
    \/ OldCallbackReturns
    \/ OldMonitorWait
    \/ Stop
    \/ JoinReturns

SpecThread == InitCallbacks /\ [][NextThread]_vars

\* the scheduler lets every thread that can take a step take one: the
\* cycle and the callbacks end, the wait has a timeout. start and stop are
\* calls of the environment and need not happen
ThreadFairness ==
    /\ WF_vars(LoopTest) /\ WF_vars(MonitorBody)
    /\ WF_vars(CallbackReturns) /\ WF_vars(MonitorWait)
    /\ WF_vars(OldLoopTest) /\ WF_vars(OldMonitorBody)
    /\ WF_vars(OldCallbackReturns) /\ WF_vars(OldMonitorWait)
    /\ WF_vars(JoinReturns)

SpecThreadFair == InitCallbacks /\ [][NextThread]_vars /\ ThreadFairness

\* ------------------------------------------------------------------------
\* Specification of the handover manager
\* ------------------------------------------------------------------------
DoExecuteHandover ==
    \E s \in SourcePaths, t \in TargetPaths,
       a \in {None} \cup {Some(st) : st \in HandoverStrategy},
       e \in StageErrors :
       ExecuteHandover(s, t, a, e)

NextHandover ==
    \/ DoExecuteHandover
    \/ GetStatistics
    \/ GetAverageHandoverTime
    \/ GetHandoverSuccessRate
    \/ MeetsTargetLatency

InitHandover == CacheInit /\ NoController /\ HMInit

SpecHandover == InitHandover /\ [][NextHandover]_vars

\* ------------------------------------------------------------------------
\* Specification of path selection: _select_best_path applied to path
\* tables drawn from bounded sets
\* ------------------------------------------------------------------------
\* the paths whose fields are drawn; the others stay as constructed
SelectModes == {WIRED, CELLULAR_5G, SATELLITE}
SelectStates == {CONNECTED, DEGRADED, FAILING}
SelectPriorities == 1..MaxPriority
SelectLatencies == {10, 40}
SelectPathFields ==
    [state : SelectStates, priority : SelectPriorities,
     latency_ms : SelectLatencies, enabled : BOOLEAN]

InitSelect ==
    /\ CacheInit
    /\ NoManager
    /\ \E w \in SelectPathFields, c \in SelectPathFields,
          t \in SelectPathFields :
          LET drawn == (WIRED :> w) @@ (CELLULAR_5G :> c) @@ (SATELLITE :> t)
          IN paths = [m \in PathModes |->
                        IF m \in SelectModes
                        THEN [NetworkPath(m, drawn[m].priority) EXCEPT
                                 !.state = drawn[m].state,
                                 !.latency_ms = drawn[m].latency_ms,
                                 !.enabled = drawn[m].enabled]
                        ELSE NetworkPath(m, DEFAULT_PRIORITIES[m])]
    /\ active_mode \in {NoMode, OFFLINE}
    /\ callbacks = [e \in Events |-> 1]
    /\ enter_calls = <<>>
    /\ dlast = [op |-> "init", target |-> "", ok |-> TRUE, fired |-> <<>>,
                raised |-> FALSE]
    /\ ThreadInit

NextSelect == RunSelection

SpecSelect == InitSelect /\ [][NextSelect]_vars

\* ------------------------------------------------------------------------
\* Properties of the cache
\* ------------------------------------------------------------------------
\* sum of size_bytes over a sequence of entries
RECURSIVE SumSizes(_)
SumSizes(es) == IF Len(es) = 0 THEN 0 ELSE Head(es).size_bytes + SumSizes(Tail(es))

RangeOf(seq) == {seq[i] : i \in 1..Len(seq)}
IsCritical(e) == e.priority = CRITICAL
CriticalEntries(es) == SelectSeq(es, IsCritical)
NonCriticalEntries(es) == SelectSeq(es, LAMBDA e : ~IsCritical(e))
\* e is in es, whatever its access time
Holds(es, e) == \E i \in 1..Len(es) : es[i] = [e EXCEPT !.accessed_at = es[i].accessed_at]
\* the step is a call of put, with these arguments
IsPut == last'.op = "put"
PutArg == last'.args[1]

\* C1: in every reachable state the used-byte counter equals the sum of
\* size_bytes over the entries in the cache.
C1_UsedBytesExact == used_bytes = SumSizes(entries)

\* a put that evicted an entry to make room and left the cache non-empty
C1_Witness ==
    /\ last.op = "put" /\ last.ok /\ Len(last.evicted) > 0
    /\ Len(entries) = 2 /\ used_bytes = 1000

\* C2: the sizes of the stored entries never add up to more than the
\* capacity, also after a put that replaces an existing key.
C2_WithinCapacity == SumSizes(entries) <= CapacityBytes

\* a successful put on a key that was cached, in a cache left full
C2_Witness ==
    /\ last.op = "put" /\ last.ok /\ last.had
    /\ SumSizes(entries) = 1000

\* C3: eviction never removes a Critical entry, and a Critical entry leaves
\* the cache only through remove, expiry (get or clear_expired),
\* clear_by_priority or a successful put on its own key.
C3_CriticalNeverEvicted ==
    [][\A e \in RangeOf(CriticalEntries(entries)) :
          /\ e.key \notin RangeOf(last'.evicted)
          /\ ~Holds(entries', e) =>
                \/ last'.op = "remove" /\ last'.key = e.key
                \/ last'.op = "get" /\ last'.key = e.key /\ ~last'.ok
                     /\ Expired(e, now')
                \/ last'.op = "clear_expired" /\ Expired(e, now')
                \/ last'.op = "clear_by_priority"
                \/ last'.op = "put" /\ last'.key = e.key /\ last'.ok]_vars

\* a put evicted an entry while a Critical entry of another key stayed
C3_Witness ==
    /\ last.op = "put" /\ Len(last.evicted) > 0
    /\ \E e \in RangeOf(entries) : IsCritical(e) /\ e.key # last.key

\* C4: when the entry does not fit and the non-Critical entries hold enough
\* bytes, put evicts non-Critical entries one at a time until it fits (no
\* more), stores the entry, returns true and adds the number of evicted
\* entries to the eviction counter; with Normal A (600) alone in a cache of
\* capacity 1000, put of High B (500) evicts A and leaves used bytes = 500.
C4_EvictUntilFits ==
    [][IsPut =>
        /\ (/\ used_bytes + PutArg.size_bytes > CapacityBytes
            /\ SumSizes(NonCriticalEntries(entries))
                  >= used_bytes + PutArg.size_bytes - CapacityBytes)
           => LET ev == last'.evicted
                  gone == SelectSeq(entries, LAMBDA e : e.key \in RangeOf(ev))
                  n == Len(ev)
              IN /\ last'.ok
                 /\ n > 0
                 /\ Len(gone) = n
                 /\ \A e \in RangeOf(gone) : ~IsCritical(e)
                 /\ \A e \in RangeOf(gone) :
                       e.key = ev[n] =>
                          used_bytes - SumSizes(gone) + e.size_bytes
                             + PutArg.size_bytes > CapacityBytes
                 /\ used_bytes - SumSizes(gone) + PutArg.size_bytes
                       <= CapacityBytes
                 /\ evictions' = evictions + n
                 /\ Holds(entries', NewEntry(PutArg, now'))
        /\ (/\ Len(entries) = 1
            /\ entries[1].size_bytes = 600 /\ entries[1].priority = NORMAL
            /\ PutArg.key # entries[1].key
            /\ PutArg.size_bytes = 500 /\ PutArg.priority = HIGH)
           => /\ last'.ok
              /\ last'.evicted = <<entries[1].key>>
              /\ entries' = <<NewEntry(PutArg, now')>>
              /\ used_bytes' = 500
              /\ evictions' = evictions + 1]_vars

\* the scenario: A (Normal, 600) was evicted by the put of B (High, 500)
C4_Witness ==
    /\ nops = 2 /\ last.op = "put" /\ last.ok /\ last.evicted = <<"a">>
    /\ last.args[1].priority = HIGH /\ last.args[1].size_bytes = 500
    /\ last.key = "b" /\ used_bytes = 500 /\ evictions = 1

\* C5: when the entry does not fit even with every non-Critical entry
\* evicted, put returns false; a put that returns false stores nothing and
\* leaves every Critical entry in place and unchanged.
C5_FailedPutKeepsCritical ==
    [][IsPut =>
        /\ (used_bytes - SumSizes(NonCriticalEntries(entries))
               + PutArg.size_bytes > CapacityBytes) => ~last'.ok
        /\ ~last'.ok =>
              /\ CriticalEntries(entries') = CriticalEntries(entries)
              /\ RangeOf(entries') \subseteq RangeOf(entries)]_vars

\* a put failed on the key of a Critical entry, which is still cached
C5_Witness ==
    /\ last.op = "put" /\ ~last.ok
    /\ \E e \in RangeOf(entries) : IsCritical(e) /\ e.key = last.key

\* the entries left after evicting the keys ks[1..n] from es
Without(es, ks, n) == SelectSeq(es, LAMBDA e : \A i \in 1..n : ks[i] # e.key)

\* C6: each eviction of a put removes a non-Critical entry of the least
\* important class present among the non-Critical entries (Prefetch before
\* Low before Normal before High) and, within that class, one with the
\* oldest access time.
C6_EvictionOrder ==
    [][IsPut =>
        \A n \in 1..Len(last'.evicted) :
           LET rest == Without(entries, last'.evicted, n - 1)
               v == EntryOf(rest, last'.evicted[n])
           IN /\ HasKey(rest, last'.evicted[n])
              /\ ~IsCritical(v)
              /\ \A e \in RangeOf(NonCriticalEntries(rest)) :
                    /\ e.priority <= v.priority
                    /\ e.priority = v.priority
                         => e.accessed_at >= v.accessed_at]_vars

\* a put evicted one entry and kept a non-Critical entry of another key
C6_Witness ==
    /\ last.op = "put" /\ Len(last.evicted) = 1
    /\ \E e \in RangeOf(entries) : ~IsCritical(e) /\ e.key # last.key

\* C7: a put on a cached key does not count the old entry's size against
\* the capacity: if used - old + new <= capacity it returns true, evicts no
\* other entry, and leaves one entry for the key and used = used - old + new.
C7_ReplaceIgnoresOldSize ==
    [][(/\ IsPut
        /\ HasKey(entries, PutArg.key)
        /\ used_bytes - EntryOf(entries, PutArg.key).size_bytes
              + PutArg.size_bytes <= CapacityBytes)
       => /\ last'.ok
          /\ RangeOf(last'.evicted) \subseteq {PutArg.key}
          /\ Cardinality({i \in 1..Len(entries') :
                             entries'[i].key = PutArg.key}) = 1
          /\ used_bytes' = used_bytes
                - EntryOf(entries, PutArg.key).size_bytes
                + PutArg.size_bytes]_vars

\* C8: a get that directly follows a successful put on the same key, before
\* the entry's expiry, returns the entry that put built from its arguments,
\* only the access time differing.
C8_PutGetRoundTrip ==
    [][(/\ last.op = "put" /\ last.ok
        /\ last'.op = "get" /\ last'.key = last.key
        /\ ~Expired(EntryOf(entries, last.key), now'))
       => /\ last'.ret # None
          /\ LET got == last'.ret[1]
                 a == last.args[1]
             IN /\ got.key = a.key
                /\ got.size_bytes = a.size_bytes
                /\ got.priority = a.priority
                /\ got.source = a.source
                /\ got.checksum = a.checksum
                /\ got.metadata = a.metadata
                /\ got = [EntryOf(entries, last.key) EXCEPT
                             !.accessed_at = got.accessed_at]]_vars

\* a put with checksum and metadata, then a hit at a later time
C8_Witness ==
    /\ nops = 2 /\ last.op = "get" /\ last.ok
    /\ last.ret[1].checksum = "c1" /\ last.ret[1].metadata = <<"m">>
    /\ last.ret[1].accessed_at > last.ret[1].created_at

\* C9: every get adds one to exactly one of hits and misses: to hits iff an
\* entry is returned, to misses when the key is absent or the entry has
\* expired; an expired entry is removed, its size taken off the used bytes,
\* and is not returned.
C9_GetCounters ==
    [][last'.op = "get" =>
        LET key == last'.key
            e == EntryOf(entries, key)
        IN /\ \/ hits' = hits + 1 /\ misses' = misses
              \/ hits' = hits /\ misses' = misses + 1
           /\ hits' = hits + 1 <=> last'.ret # None
           /\ ~HasKey(entries, key) => misses' = misses + 1
           /\ HasKey(entries, key) =>
                 /\ Expired(e, now) => misses' = misses + 1
                 /\ misses' = misses + 1 =>
                       /\ Expired(e, now')
                       /\ ~HasKey(entries', key)
                       /\ entries' = SelectSeq(entries, LAMBDA x : x.key # key)
                       /\ used_bytes' = used_bytes - e.size_bytes
                 /\ last'.ret # None => last'.ret[1].key = key
                                         /\ ~Expired(e, now)]_vars

\* a get found its entry expired and removed it
C9_Witness ==
    /\ last.op = "get" /\ last.had /\ ~last.ok
    /\ misses = 1 /\ hits = 0 /\ entries = <<>> /\ used_bytes = 0

\* prefetch_accuracy_pct of get_statistics, rounded down
PrefetchAccuracyPct ==
    IF prefetch_total > 0 THEN (prefetch_hits * 100) \div prefetch_total ELSE 0

\* C24: after any sequence of prefetch, put and get calls the prefetch-hit
\* counter never exceeds the total-prefetched counter, and the reported
\* prefetch accuracy stays within 0..100 percent.
C24_PrefetchAccuracyBounded ==
    /\ prefetch_hits <= prefetch_total
    /\ PrefetchAccuracyPct \in 0..100

\* C27: a put that returns false leaves the cache entries, the used-byte
\* counter and the eviction counter exactly as they were before the call.
C27_FailedPutChangesNothing ==
    [][(IsPut /\ ~last'.ok) =>
          /\ entries' = entries
          /\ used_bytes' = used_bytes
          /\ evictions' = evictions]_vars

\* the threads inside `with self._lock`
Inside == {t \in Threads : tcall[t].pc \in InsidePcs}

\* C21: the steps of put, get, remove, clear_expired, clear_by_priority and
\* get_statistics made under the lock exclude one another: at most one
\* thread is inside; whenever no thread is inside, the used bytes equal the
\* sum of the entry sizes and do not exceed the capacity; and the used bytes
\* and the entry count read by get_statistics are those of one cache state
C21_MutualExclusion ==
    /\ Cardinality(Inside) <= 1
    /\ Inside = {} =>
          /\ used_bytes = SumSizes(entries)
          /\ SumSizes(entries) <= CapacityBytes
    /\ \A t \in Threads :
          tcall[t].pc = "stats_read" =>
             /\ tcall[t].ret[1].used_bytes = used_bytes
             /\ tcall[t].ret[1].used_bytes = SumSizes(entries)
             /\ tcall[t].ret[1].entry_count = Len(entries)

\* a thread is inside put, the entry stored and its bytes not yet counted,
\* while another thread is in a prefetch that is about to call put
C21_Witness ==
    \E t, u \in Threads :
       /\ tcall[t].pc = "put_inserted"
       /\ used_bytes # SumSizes(entries)
       /\ tcall[u].pc = "checked"

\* C28: prefetch never replaces an entry that already exists: when the put
\* made by prefetch for a key stores its entry, an entry that was cached
\* under that key is left as it was, also when other threads call put
C28_PrefetchKeepsExisting ==
    [][\A t \in Threads :
          (/\ tcall[t].pc = "checked"
           /\ tcall'[t].pc = "put_inserted"
           /\ HasKey(entries, tcall[t].a[1].key)) =>
             /\ HasKey(entries', tcall[t].a[1].key)
             /\ EntryOf(entries', tcall[t].a[1].key)
                   = EntryOf(entries, tcall[t].a[1].key)]_vars

\* ------------------------------------------------------------------------
\* Properties of the controller
\* ------------------------------------------------------------------------
\* some path is in state Connected or Degraded
SomePathUp == \E m \in PathModes : paths[m].state \in {CONNECTED, DEGRADED}

\* C10: in every reachable state, from construction onward, at most one
\* path is active, and the controller is Offline (active_mode = OFFLINE,
\* get_status().mode not "connected") iff no path is Connected or Degraded.
C10_OfflineIffNoPathUp ==
    /\ Cardinality({m \in PathModes : active_mode = m}) <= 1
    /\ active_mode = OFFLINE <=> ~SomePathUp
    /\ StatusMode # "connected" <=> ~SomePathUp

\* the paths that qualify: enabled and Connected or Degraded
Eligible == {m \in PathModes : /\ paths[m].enabled
                               /\ paths[m].state \in {CONNECTED, DEGRADED}}

\* m is at least as good as n: lower priority number, then lower latency
AtLeastAsGood(m, n) ==
    \/ paths[m].priority < paths[n].priority
    \/ /\ paths[m].priority = paths[n].priority
       /\ paths[m].latency_ms <= paths[n].latency_ms

\* the eligible paths no other eligible path beats
BestEligible == {m \in Eligible : \A n \in Eligible : AtLeastAsGood(m, n)}

\* the path table of the scenario: wired(1, Failing), cellular(2,
\* Connected, 10 ms), satellite(3, Connected, 40 ms), all enabled
ScenarioPaths ==
    /\ paths[WIRED].priority = 1 /\ paths[WIRED].state = FAILING
    /\ paths[CELLULAR_5G].priority = 2 /\ paths[CELLULAR_5G].state = CONNECTED
    /\ paths[CELLULAR_5G].latency_ms = 10
    /\ paths[SATELLITE].priority = 3 /\ paths[SATELLITE].state = CONNECTED
    /\ paths[SATELLITE].latency_ms = 40
    /\ \A m \in SelectModes : paths[m].enabled

\* C11: whenever selection has run and some path qualifies, the chosen path
\* is an enabled path in state Connected or Degraded with the lowest
\* priority number, ties broken by the lowest latency; the choice is a
\* function of the path table alone (among equals, the first of the table),
\* whatever the mode before and whether or not a callback raised; the
\* scenario's table selects cellular.
C11_SelectLowestPriorityThenLatency ==
    (dlast.op = "select" /\ Eligible # {}) =>
        /\ active_mode \in BestEligible
        /\ \A n \in BestEligible : PositionOf(active_mode) <= PositionOf(n)
        /\ ScenarioPaths => active_mode = CELLULAR_5G

\* selection has run on the scenario's table and chose cellular
C11_Witness ==
    /\ dlast.op = "select"
    /\ ScenarioPaths
    /\ active_mode = CELLULAR_5G

\* the events whose callbacks the last call invoked
FiredEvents == {dlast.fired[j][1] : j \in 1..Len(dlast.fired)}

\* C12: once all paths are disabled, get_status().mode no longer reports
\* a connection and each registered ddil_enter callback has been invoked
\* exactly once since a path last qualified.
C12_AllDisabledOfflineOnce ==
    (\A m \in PathModes : ~paths[m].enabled) =>
        /\ StatusMode # "connected"
        /\ DOMAIN enter_calls = 1..callbacks["ddil_enter"]
        /\ \A i \in DOMAIN enter_calls : enter_calls[i] = 1

\* C13: every transition out of Offline is accompanied by a ddil_exit
\* event: the call that leaves Offline invokes the ddil_exit callbacks.
C13_DdilExitOnLeavingOffline ==
    [][(active_mode = OFFLINE /\ active_mode' # OFFLINE) =>
          "ddil_exit" \in FiredEvents']_vars

\* C14: force_handover(target) with a target that is not a configured path
\* (OFFLINE included) or is disabled returns false, leaves active_mode
\* unchanged, invokes no callback and does not raise.
C14_ForceHandoverRefused ==
    [][(/\ dlast'.op = "force_handover"
        /\ \/ dlast'.target \notin PathModes
           \/ ~paths[dlast'.target].enabled) =>
          /\ ~dlast'.ok
          /\ ~dlast'.raised
          /\ dlast'.fired = <<>>
          /\ active_mode' = active_mode]_vars

\* force_handover to a disabled path was refused while another path is
\* active
C14_Witness ==
    /\ dlast.op = "force_handover" /\ ~dlast.ok
    /\ dlast.target \in PathModes
    /\ ~paths[dlast.target].enabled
    /\ active_mode \in PathModes

\* C15: after disable_path(m) with m the active path, active_mode is the
\* best eligible path (which cannot be m, now disabled), or Offline if no
\* path is eligible; never m.
C15_DisableActiveReselects ==
    [][(/\ dlast'.op = "disable_path"
        /\ dlast'.target \in PathModes
        /\ dlast'.target = active_mode) =>
          /\ active_mode' # active_mode
          /\ IF Eligible' = {}
             THEN active_mode' = OFFLINE
             ELSE /\ active_mode' \in BestEligible'
                  /\ \A n \in BestEligible' :
                        PositionOf(active_mode') <= PositionOf(n)]_vars

\* disable_path of the active path handed over to another path
C15_Witness ==
    /\ dlast.op = "disable_path"
    /\ ~paths[dlast.target].enabled
    /\ "handover" \in FiredEvents
    /\ active_mode \in PathModes \ {dlast.target}

\* C18: an exception of a handover or ddil_enter callback is ignored: it
\* does not leave the call that invoked the callback, and every callback
\* registered for an event the call fired has been invoked.
C18_CallbackExceptionsContained ==
    /\ ~dlast.raised
    /\ \A e \in FiredEvents : \A i \in 1..callbacks[e] :
          \E j \in 1..Len(dlast.fired) : dlast.fired[j] = <<e, i>>

\* C16: when stop() has returned, the monitoring thread has terminated
\* (or was never started), whatever the loop was doing when stop() was
\* called.
C16_StopWaitsForThread ==
    stop_pc = "returned" => mon_pc \in {"none", "done"}

\* C17: an exception raised while polling one path is contained to that
\* path: the path is Failing afterwards, every other enabled path has been
\* refreshed (Connected or Degraded) and the failover evaluation has run
\* (a mode or Offline has been selected).
C17_PollExceptionContained ==
    (dlast.op = "cycle" /\ dlast.target \in PathModes) =>
        /\ paths[dlast.target].state = FAILING
        /\ \A m \in PathModes \ {dlast.target} :
              paths[m].enabled => paths[m].state \in {CONNECTED, DEGRADED}
        /\ active_mode # NoMode


\* the last call was a monitoring cycle that ran the failover evaluation
IsCycle == dlast'.op = "cycle" /\ dlast'.target = ""

\* the active path is healthy in the table the evaluation of the cycle reads
ActiveHealthy ==
    /\ active_mode \in PathModes
    /\ paths'[active_mode].state \in {CONNECTED, DEGRADED}

\* C25: a monitoring cycle changes active_mode only if active_mode is unset,
\* Offline or names a path whose state is Disconnected or Failing; while the
\* active path is Connected or Degraded the cycle keeps it, and fires no
\* callback, whatever other path has become eligible
C25_CycleReselectsOnlyWhenNeeded ==
    [][IsCycle =>
          /\ (active_mode' # active_mode =>
                 \/ active_mode \in {NoMode, OFFLINE}
                 \/ /\ paths[active_mode].state \in {DISCONNECTED, FAILING}
                    /\ paths'[active_mode].state \in {DISCONNECTED, FAILING})
          /\ (ActiveHealthy =>
                 /\ active_mode' = active_mode
                 /\ dlast'.fired = <<>>)]_vars

\* a cycle has kept a healthy active path although an enabled path with a
\* lower priority number is eligible
C25_Witness ==
    /\ dlast.op = "cycle"
    /\ dlast.target = ""
    /\ active_mode \in Eligible
    /\ \E m \in Eligible : paths[m].priority < paths[active_mode].priority

\* C23: every change of the connection state of a path follows one of the
\* edges Disconnected->Connecting, Connecting->Connected, Connected->Degraded,
\* Degraded->Connected, Degraded->Failing, Failing->Disconnected
StateEdges ==
    {<<DISCONNECTED, CONNECTING>>, <<CONNECTING, CONNECTED>>,
     <<CONNECTED, DEGRADED>>, <<DEGRADED, CONNECTED>>,
     <<DEGRADED, FAILING>>, <<FAILING, DISCONNECTED>>}

C23_PathStateEdges ==
    [][\A m \in PathModes :
          paths'[m].state # paths[m].state =>
             <<paths[m].state, paths'[m].state>> \in StateEdges]_vars

\* ------------------------------------------------------------------------
\* Properties of the handover manager
\* ------------------------------------------------------------------------
\* C19: every call of execute_handover returns and appends exactly the
\* record it returns to the history; when a stage raised, the record has
\* success = false, packets_lost = -1 and the error message; when the
\* strategy completed, it has success = true.
C19_ExecuteHandoverRecords ==
    [][hlast'.op = "execute_handover" =>
          /\ hlast'.returned
          /\ handover_history' = Append(handover_history, hlast'.ret)
          /\ IF hlast'.error # None
             THEN /\ ~hlast'.ret.success
                  /\ hlast'.ret.packets_lost = -1
                  /\ hlast'.ret.error_message = hlast'.error
             ELSE hlast'.ret.success]_vars

\* a failed attempt was recorded after a successful one
C19_Witness ==
    /\ hlast.op = "execute_handover" /\ hlast.error # None
    /\ Len(handover_history) = 2
    /\ handover_history[1].success
    /\ ~handover_history[2].success
    /\ handover_history[2].packets_lost = -1

\* C20: after any number n >= 0 of execute_handover calls, get_statistics
\* returns, with total_handovers = n, successful = the number of records
\* with success = true, failed = n - successful and total_packets_lost =
\* the sum of packets_lost over the successful records.
C20_StatisticsTotals ==
    hlast.op = "get_statistics" =>
        /\ hlast.returned
        /\ hlast.ret.total_handovers = Len(handover_history)
        /\ hlast.ret.successful = Len(Successful(handover_history))
        /\ hlast.ret.failed =
              Len(handover_history) - Len(Successful(handover_history))
        /\ hlast.ret.total_packets_lost =
              SumPacketsLost(Successful(handover_history))

\* the queries of the manager
Queries ==
    {"get_statistics", "get_average_handover_time", "meets_target_latency",
     "get_handover_success_rate"}

\* C30: with no other thread holding the lock of the manager, every call of
\* get_statistics, get_average_handover_time, meets_target_latency and
\* get_handover_success_rate returns and leaves the lock free, for an empty
\* and for a non-empty history
C30_QueriesReturn ==
    hlast.op \in Queries => hlast.returned /\ lock = "free"

\* ------------------------------------------------------------------------
\* Properties of the monitoring thread
\* ------------------------------------------------------------------------
\* C22: for every interleaving of disable_path(m), called from another
\* thread, with a monitoring cycle, once both have completed active_mode
\* does not name a disabled path
C22_DisabledPathNotActive ==
    (pending = NoPending /\ active_mode \in PathModes) =>
        paths[active_mode].enabled

\* C29: no two monitoring loops run at the same time on one controller,
\* under any sequence of start() and stop() calls, a start() after a
\* stop() whose join timed out included
C29_AtMostOneLoop == ~(mon_pc \in Live /\ old_pc \in Live)

\* a loop on which stop() has been called is alive: the thread stop()
\* joined, or the earlier one that a later start() left behind
StoppedLoopAlive ==
    \/ stop_pc # "idle" /\ mon_pc \in Live
    \/ old_pc \in Live

\* C26: once stop() has been called the monitoring loop eventually exits
\* (an exception inside a cycle leads to the wait and the next test of the
\* loop, never to its end)
C26_StoppedLoopExits == StoppedLoopAlive ~> ~StoppedLoopAlive

====
